---- MODULE Spec2Model ----
(***************************************************************************)
(* Model of the translation request pipeline of ts-translator-auto-core    *)
(* (src/src/translator.ts): Translator.translate, DeepLTranslator's         *)
(* preprocessText, attemptTranslation, makeApiRequest,                      *)
(* postProcessTranslation, shouldRetranslate, finalCleanup, translateText.  *)
(*                                                                         *)
(* A string is a sequence of characters; a character is a one-element      *)
(* TLA+ string, except three characters outside ASCII which are written    *)
(* "<ar>" (a letter of the Arabic block U+0600..U+06FF), "<ko>" (the        *)
(* Hangul syllable U+AC1C) and "<rtl>" (U+200F).  An optional string        *)
(* (string | undefined) is a sequence of at most one string.               *)
(***************************************************************************)
EXTENDS Integers, Sequences, FiniteSets, TLC

----------------------------------------------------------------------------
(* Bounds of the model *)

MaxDelay == 4000       \* a 429 response arrives only while doubling stays within it
TickMs == 2000         \* granularity of the passage of time between calls
MaxRestarts == 2        \* the count of translateText's calls to itself saturates here
ErrorSends == 1        \* 429 and 5xx responses arrive during the first ErrorSends sends of a round

----------------------------------------------------------------------------
(* Characters and character classes *)

DigitChars == <<"0", "1", "2", "3", "4", "5", "6", "7", "8", "9">>

IsDigit(c) == \E k \in 1..10 : DigitChars[k] = c

DigitVal(c) == (CHOOSE k \in 1..10 : DigitChars[k] = c) - 1

LowerChars == {"a", "b", "r", "x", "z"}

UpperChars == {"D", "E", "P", "L", "V", "A", "R", "C", "T", "X", "W"}

\* the character classes used by the regular expressions of translator.ts
InClass(cls, c) ==
  CASE cls = "a-z0-9" -> c \in LowerChars \/ IsDigit(c)
    [] cls = "a-z0-9_" -> c \in LowerChars \/ IsDigit(c) \/ c = "_"
    [] cls = "a-zA-Z0-9." -> c \in LowerChars \/ c \in UpperChars \/ IsDigit(c) \/ c = "."
    [] cls = "\\d" -> IsDigit(c)
    [] cls = "\\s" -> c = " "
    [] cls = "\\u0600-\\u06FF" -> c = "<ar>"
    [] cls = "^}" -> c # "}"

SetMin(S) == CHOOSE m \in S : \A x \in S : m <= x

SetMax(S) == CHOOSE m \in S : \A x \in S : m >= x

Min2(a, b) == IF a <= b THEN a ELSE b

Max2(a, b) == IF a >= b THEN a ELSE b

----------------------------------------------------------------------------
(* String primitives of JavaScript (positions are 1-based here) *)

\* s.substring(from0): the characters after the first from0 ones
Substring(s, from0) == IF from0 >= Len(s) THEN <<>> ELSE SubSeq(s, from0 + 1, Len(s))

\* s.substring(from0, to0)
Substring2(s, from0, to0) == IF to0 <= from0 THEN <<>> ELSE SubSeq(s, from0 + 1, Min2(to0, Len(s)))

StartsWithAt(s, i, lit) ==
  /\ i + Len(lit) - 1 <= Len(s)
  /\ \A k \in 1..Len(lit) : s[i + k - 1] = lit[k]

\* the least element of a set of positions, 0 when it is empty
MinOrZero(S) == IF S = {} THEN 0 ELSE SetMin(S)

\* s.indexOf(lit) + 1, 0 when absent
IndexOf(s, lit) == MinOrZero({i \in 1..(Len(s) + 1) : StartsWithAt(s, i, lit)})

Includes(s, lit) == IndexOf(s, lit) # 0

\* s with the n characters from position i on replaced by repl (s when i = 0)
ReplaceAt(s, i, n, repl) ==
  IF i = 0 THEN s ELSE SubSeq(s, 1, i - 1) \o repl \o SubSeq(s, i + n, Len(s))

\* s.replace(lit, repl) with a string pattern: the first occurrence only
ReplaceFirst(s, lit, repl) == ReplaceAt(s, IndexOf(s, lit), Len(lit), repl)

\* the part of s from the first to the last position of keep
Kept(s, keep) == IF keep = {} THEN <<>> ELSE SubSeq(s, SetMin(keep), SetMax(keep))

\* s.trim()
Trim(s) == Kept(s, {i \in 1..Len(s) : s[i] # " "})

\* !s || s.trim() === ""
IsBlank(s) == Trim(s) = <<>>

\* the characters of s before position i (s when i = 0)
Before(s, i) == IF i = 0 THEN s ELSE SubSeq(s, 1, i - 1)

\* s.split(sep)[0]
SplitHead(s, sep) == Before(s, IndexOf(s, sep))

RECURSIVE SplitAt(_, _)
SplitAt(s, i) ==
  IF i = 0 THEN <<s>>
  ELSE <<SubSeq(s, 1, i - 1)>>
         \o SplitAt(SubSeq(s, i + 1, Len(s)), IndexOf(SubSeq(s, i + 1, Len(s)), <<" ">>))

\* s.split(" ")
SplitWords(s) == SplitAt(s, IndexOf(s, <<" ">>))

RECURSIVE JoinWords(_)
\* words.join(" ")
JoinWords(ws) ==
  IF ws = <<>> THEN <<>>
  ELSE IF Len(ws) = 1 THEN ws[1]
  ELSE ws[1] \o <<" ">> \o JoinWords(Tail(ws))

RECURSIVE ParseInt(_)
\* parseInt(ds, 10) of a sequence of digits
ParseInt(ds) ==
  IF ds = <<>> THEN 0
  ELSE 10 * ParseInt(SubSeq(ds, 1, Len(ds) - 1)) + DigitVal(ds[Len(ds)])

RECURSIVE ToDigits(_)
\* the decimal representation `${i}` of a natural number
ToDigits(n) ==
  IF n < 10 THEN <<DigitChars[n + 1]>>
  ELSE ToDigits(n \div 10) \o <<DigitChars[(n % 10) + 1]>>

----------------------------------------------------------------------------
(* Regular expressions.  A pattern is a sequence of alternatives, an       *)
(* alternative a sequence of elements: a literal, a greedy class            *)
(* repetition ("+" or "*") or an optional literal.                          *)

Lit(l) == [t |-> "lit", lit |-> l]

Plus(c) == [t |-> "rep", cls |-> c, min |-> 1]

Star(c) == [t |-> "rep", cls |-> c, min |-> 0]

Opt(l) == [t |-> "opt", lit |-> l]

RunEndOf(s, bad) == IF bad = {} THEN Len(s) ELSE SetMin(bad) - 1

\* the last position of the maximal run of class characters starting at i
RunEnd(s, i, cls) == RunEndOf(s, {k \in i..Len(s) : ~InClass(cls, s[k])})

RECURSIVE MatchAlt(_, _, _, _)
RECURSIVE MatchRep(_, _, _, _, _, _)
FirstNonZero(m, alt, k, s, i, n, min) ==
  IF m # 0 THEN m ELSE MatchRep(alt, k, s, i, n - 1, min)

\* a repetition tries its longest run first: n characters, then n - 1, ... min
MatchRep(alt, k, s, i, n, min) ==
  IF n < min THEN 0
  ELSE FirstNonZero(MatchAlt(alt, k + 1, s, i + n), alt, k, s, i, n, min)

OrElse(m, alt, k, s, i) == IF m # 0 THEN m ELSE MatchAlt(alt, k, s, i)

\* the position after the match of elements k.. of alt at position i of s,
\* or 0 when there is none; greedy, with backtracking
MatchAlt(alt, k, s, i) ==
  IF k > Len(alt) THEN i
  ELSE CASE alt[k].t = "lit" ->
              IF StartsWithAt(s, i, alt[k].lit)
              THEN MatchAlt(alt, k + 1, s, i + Len(alt[k].lit)) ELSE 0
         [] alt[k].t = "rep" ->
              MatchRep(alt, k, s, i, RunEnd(s, i, alt[k].cls) - i + 1, alt[k].min)
         [] alt[k].t = "opt" ->
              OrElse(IF StartsWithAt(s, i, alt[k].lit)
                     THEN MatchAlt(alt, k + 1, s, i + Len(alt[k].lit)) ELSE 0,
                     alt, k + 1, s, i)

RECURSIVE MatchAlts(_, _, _, _)
NextAlt(m, re, a, s, i) == IF m # 0 THEN m ELSE MatchAlts(re, a + 1, s, i)

\* the first alternative a.. of re that matches at position i decides
MatchAlts(re, a, s, i) ==
  IF a > Len(re) THEN 0
  ELSE NextAlt(MatchAlt(re[a], 1, s, i), re, a, s, i)

\* the position after the match of pattern re at position i, 0 when none
MatchEnd(re, s, i) == IF i > Len(s) THEN 0 ELSE MatchAlts(re, 1, s, i)

\* re.test(s) of a fresh regular expression
Test(re, s) == \E i \in 1..Len(s) : MatchEnd(re, s, i) # 0

\* the start of the first match of re in s at or after position i, 0 when none
NextMatch(re, s, i) == MinOrZero({j \in i..Len(s) : MatchEnd(re, s, j) # 0})

RECURSIVE SpansFrom(_, _, _)
SpansNext(j, e, re, s) == << <<j, e>> >> \o SpansFrom(re, s, e)

SpansAfter(j, re, s) == IF j = 0 THEN <<>> ELSE SpansNext(j, MatchEnd(re, s, j), re, s)

SpansFrom(re, s, i) == SpansAfter(NextMatch(re, s, i), re, s)

\* the successive matches of a global regular expression, left to right, as
\* <<start, end + 1>>: the search resumes where the previous match ended
MatchSpans(re, s) == SpansFrom(re, s, 1)

RECURSIVE Rebuild(_, _, _, _)
\* s from the end of match k - 1 on, with the matches k.. replaced by repl
Rebuild(s, sp, k, repl) ==
  IF k > Len(sp) THEN SubSeq(s, IF k = 1 THEN 1 ELSE sp[k - 1][2], Len(s))
  ELSE SubSeq(s, IF k = 1 THEN 1 ELSE sp[k - 1][2], sp[k][1] - 1) \o repl
         \o Rebuild(s, sp, k + 1, repl)

\* s.replace(re, repl) for a global regular expression
ReplaceAll(re, s, repl) == Rebuild(s, MatchSpans(re, s), 1, repl)

Pieces(s, sp) == [k \in 1..Len(sp) |-> SubSeq(s, sp[k][1], sp[k][2] - 1)]

\* s.match(re) || [] for a global regular expression: the matched substrings
Matches(re, s) == Pieces(s, MatchSpans(re, s))

Starts(sp) == [k \in 1..Len(sp) |-> sp[k][1]]

\* the start positions (match.index + 1) of the successive matches
MatchStarts(re, s) == Starts(MatchSpans(re, s))

----------------------------------------------------------------------------
(* The instance: DeepLTranslator's fields *)

VARIABLES
  options,            \* this.options: the caller's options merged over DEFAULT_OPTIONS
  randomId,           \* the random id drawn by the constructor
  currentDelay,       \* this.currentDelay
  callerOptions,      \* the options object the caller passed to the constructor
  lastRequestSet,     \* this.lastRequestTime is non-zero (a request has been made)
  timeSinceLastRequest  \* Date.now() - this.lastRequestTime, saturating at MaxDelay

\* a numeric option that is undefined
Undefined == -1

\* the key is absent from the object the caller passes to the constructor
Absent == -2

DEFAULT_OPTIONS ==
  [maxLength |-> 5000, delayBetweenRequests |-> 1000, maxRetries |-> 3,
   retryDelay |-> 2000, useContext |-> "true", valueOnly |-> "false"]

ArabicDelay == 1500

\* { ...DEFAULT_OPTIONS, ...options }: a key the caller passes, even with the
\* value undefined, overrides the default; an absent key keeps it
MergeOptions(raw) ==
  [sourceLanguage |-> raw.sourceLanguage,
   targetLanguage |-> raw.targetLanguage,
   maxLength |-> IF raw.maxLength = Absent THEN DEFAULT_OPTIONS.maxLength ELSE raw.maxLength,
   delayBetweenRequests |-> IF raw.delayBetweenRequests = Absent
                            THEN DEFAULT_OPTIONS.delayBetweenRequests
                            ELSE raw.delayBetweenRequests,
   maxRetries |-> IF raw.maxRetries = Absent THEN DEFAULT_OPTIONS.maxRetries ELSE raw.maxRetries,
   retryDelay |-> IF raw.retryDelay = Absent THEN DEFAULT_OPTIONS.retryDelay ELSE raw.retryDelay,
   useContext |-> IF raw.useContext = "absent" THEN DEFAULT_OPTIONS.useContext ELSE raw.useContext,
   valueOnly |-> IF raw.valueOnly = "absent" THEN DEFAULT_OPTIONS.valueOnly ELSE raw.valueOnly]

\* a || b for a numeric option: undefined and 0 are falsy
\* variant: only undefined is replaced by the default, as ?? would do
OrDefaultNullish(v, d) == IF v = Undefined THEN d ELSE v

OrDefault(v, d) == IF v = Undefined \/ v = 0 THEN d ELSE v

\* the base delay makeApiRequest resets currentDelay to
BaseDelay == OrDefault(options.delayBetweenRequests, DEFAULT_OPTIONS.delayBetweenRequests)

\* the constructor's choice of this.currentDelay
InitialDelay(raw) ==
  IF raw.targetLanguage = "ar" /\ raw.delayBetweenRequests \in {Absent, Undefined}
  THEN ArabicDelay
  ELSE OrDefault(MergeOptions(raw).delayBetweenRequests, DEFAULT_OPTIONS.delayBetweenRequests)

US == <<"_", "_">>

DEEPL_VAR_ == <<"D", "E", "E", "P", "L", "_", "V", "A", "R", "_">>

US_DEEPL_VAR == US \o <<"D", "E", "E", "P", "L", "_", "V", "A", "R">>

US_DEEPL_CTX == US \o <<"D", "E", "E", "P", "L", "_", "C", "T", "X">>

CONTEXT_DELIMITER == US_DEEPL_CTX \o <<"_">> \o randomId \o US

VARIABLE_PREFIX == US_DEEPL_VAR \o <<"_">> \o randomId \o <<"_">>

VARIABLE_SUFFIX == US

\* `${this.VARIABLE_PREFIX}${i}${this.VARIABLE_SUFFIX}` for the 0-based index i
Token(i) == VARIABLE_PREFIX \o ToDigits(i) \o VARIABLE_SUFFIX

\* `{${varName}}`
Braced(name) == <<"{">> \o name \o <<"}">>

VARIABLE_PATTERN == << <<Lit(<<"{">>), Plus("^}"), Lit(<<"}">>)>> >>

\* /__DEEPL_CTX[a-z0-9_]*__/g
ctxPattern == << <<Lit(US_DEEPL_CTX), Star("a-z0-9_"), Lit(US)>> >>

\* /__DEEPL_VAR[a-z0-9_]*__/g
varPattern == << <<Lit(US_DEEPL_VAR), Star("a-z0-9_"), Lit(US)>> >>

\* /[\u0600-\u06FF]+\.[a-zA-Z0-9.]+\.[a-zA-Z0-9.]+/g
sourceKeyPattern ==
  << <<Plus("\\u0600-\\u06FF"), Lit(<<".">>), Plus("a-zA-Z0-9."), Lit(<<".">>),
       Plus("a-zA-Z0-9.")>> >>

\* /(?:DEEPL_VAR_[a-z0-9]+_\d+__)|(?:__DEEPL_VAR_[a-z0-9]+_\d+)|(?:DEEPL_VAR_\d+__)/g
partialVarPattern ==
  << <<Lit(DEEPL_VAR_), Plus("a-z0-9"), Lit(<<"_">>), Plus("\\d"), Lit(US)>>,
     <<Lit(US_DEEPL_VAR \o <<"_">>), Plus("a-z0-9"), Lit(<<"_">>), Plus("\\d")>>,
     <<Lit(DEEPL_VAR_), Plus("\\d"), Lit(US)>> >>

\* /DEEPL_VAR_[a-z0-9_]+/g
genericVarPattern == << <<Lit(DEEPL_VAR_), Plus("a-z0-9_")>> >>

\* this.VARIABLE_PREFIX.split("_")[0]
basePrefix == SplitHead(VARIABLE_PREFIX, <<"_">>)

\* new RegExp(`${basePrefix}_[a-z0-9]+_\\d+__?`, "g")
cleanupPattern ==
  << <<Lit(basePrefix \o <<"_">>), Plus("a-z0-9"), Lit(<<"_">>), Plus("\\d"), Lit(<<"_">>),
       Opt(<<"_">>)>> >>

\* /(_!|_\s+)/g
finalPattern == << <<Lit(<<"_", "!">>)>>, <<Lit(<<"_">>), Plus("\\s")>> >>

FirstMatchAt(re, s, i) == IF i = 0 THEN <<0, 0>> ELSE <<i, MatchEnd(re, s, i)>>

\* the first match of re in s as <<start, end + 1>>, <<0, 0>> when none
FirstMatch(re, s) == FirstMatchAt(re, s, MinOrZero({i \in 1..Len(s) : MatchEnd(re, s, i) # 0}))

None == <<>>

Some(s) == <<s>>

\* an optional string that is defined and not empty
Truthy(o) == o # <<>> /\ o[1] # <<>>

----------------------------------------------------------------------------
(* preprocessText *)

\* this.options.useContext ?? DEFAULT_OPTIONS.useContext, with the override for Arabic
EffectiveUseContext ==
  IF options.targetLanguage = "ar" /\ options.useContext = "undefined" THEN FALSE
  ELSE IF options.useContext = "undefined" THEN DEFAULT_OPTIONS.useContext = "true"
  ELSE options.useContext = "true"

\* this.options.valueOnly ?? DEFAULT_OPTIONS.valueOnly, with the override for Arabic
EffectiveValueOnly ==
  IF options.targetLanguage = "ar" /\ options.valueOnly = "undefined" THEN TRUE
  ELSE IF options.valueOnly = "undefined" THEN DEFAULT_OPTIONS.valueOnly = "true"
  ELSE options.valueOnly = "true"

\* { start: match.index, end: match.index + match[0].length, name: match[1] }
Spans(starts, found) ==
  [k \in 1..Len(found) |->
     [start |-> starts[k] - 1,
      end |-> starts[k] - 1 + Len(found[k]),
      name |-> SubSeq(found[k], 2, Len(found[k]) - 1)]]

\* the spans {start, end, name} of the matches of VARIABLE_PATTERN, left to right
ExtractVariables(text) ==
  Spans(MatchStarts(VARIABLE_PATTERN, text), Matches(VARIABLE_PATTERN, text))

RECURSIVE MaskAscending(_, _, _)
\* variant: the spans are replaced first to last, at the offsets found in the
\* original text
MaskAscending(text, variables, i) ==
  IF i = 0 THEN text
  ELSE MaskAscending(Substring2(text, 0, variables[Len(variables) - i + 1].start)
                       \o Token(Len(variables) - i)
                       \o Substring(text, variables[Len(variables) - i + 1].end),
                     variables, i - 1)

RECURSIVE MaskFrom(_, _, _)
\* replaces the spans i, i-1, ..., 1 (1-based) by their tokens, last span first
MaskFrom(text, variables, i) ==
  IF i = 0 THEN text
  ELSE MaskFrom(Substring2(text, 0, variables[i].start) \o Token(i - 1)
                  \o Substring(text, variables[i].end),
                variables, i - 1)

\* the context preprocessText returns as sanitizedContext
SanitizeContext(ctx, useCtx) ==
  IF Truthy(ctx) /\ useCtx
  THEN IF Includes(ctx[1], US_DEEPL_CTX)
       THEN Some(ReplaceAll(ctxPattern, ctx[1], <<>>))
       ELSE IF Test(sourceKeyPattern, ctx[1])
       THEN Some(ReplaceAll(sourceKeyPattern, ctx[1], <<>>))
       ELSE ctx
  ELSE IF ~useCtx THEN None
  ELSE ctx

\* the text without the delimiters it already contains
CleanedText(t) ==
  IF Includes(t, VARIABLE_PREFIX) \/ Includes(t, CONTEXT_DELIMITER)
  THEN ReplaceAll(varPattern, ReplaceAll(ctxPattern, t, <<>>), <<>>)
  ELSE t

Preprocessed(cleanedText, vars, ctx) ==
  [processedText |-> MaskFrom(cleanedText, vars, Len(vars)),
   variables |-> vars,
   sanitizedContext |-> SanitizeContext(ctx, EffectiveUseContext),
   useContext |-> EffectiveUseContext,
   valueOnly |-> EffectiveValueOnly]

preprocessText(t, c) ==
  Preprocessed(CleanedText(t), ExtractVariables(CleanedText(t)),
               IF EffectiveValueOnly THEN None ELSE c)

----------------------------------------------------------------------------
(* postProcessTranslation *)

RECURSIVE RestoreFirstOnly(_, _, _)
\* variant: only the first occurrence of each token is replaced
RestoreFirstOnly(text, variables, from0) ==
  IF from0 >= Len(variables) THEN text
  ELSE RestoreFirstOnly(ReplaceFirst(text, Token(from0), Braced(variables[from0 + 1].name)),
                        variables, from0 + 1)

RECURSIVE RestoreTokens(_, _, _)
\* for (i = from0; i < variables.length; i++) replace every Token(i) by {name}
RestoreTokens(text, variables, from0) ==
  IF from0 >= Len(variables) THEN text
  ELSE RestoreTokens(ReplaceAll(<< <<Lit(Token(from0))>> >>, text,
                                Braced(variables[from0 + 1].name)),
                     variables, from0 + 1)

\* the special processing for the Arabic target
ArabicCleanup(t) ==
  ReplaceAll(<< <<Lit(<<"_", "<ko>">>)>> >>,
    ReplaceAll(<< <<Lit(<<"_">>), Plus("\\d"), Lit(US)>> >>,
      Trim(ReplaceAll(<< <<Plus("\\s")>> >>,
             ReplaceAll(<< <<Lit(<<"<rtl>">>)>> >>, t, <<>>),
             <<" ">>)),
      <<>>),
    <<>>)

Group(f, m, dropL, dropR) ==
  IF f[1] = 0 THEN <<>> ELSE SubSeq(m, f[1] + dropL, f[2] - 1 - dropR)

\* the text of the first group of the first match of re in m (the match
\* without dropL leading and dropR trailing characters), <<>> when none
FirstGroup(re, m, dropL, dropR) == Group(FirstMatch(re, m), m, dropL, dropR)

\* one residual identifier: {name} of the variable its index names, or nothing
RepairOne(text, m, digits, variables) ==
  IF digits # <<>> /\ ParseInt(digits) < Len(variables)
  THEN ReplaceFirst(text, m, Braced(variables[ParseInt(digits) + 1].name))
  ELSE ReplaceFirst(text, m, <<>>)

RECURSIVE RepairPartial(_, _, _)
\* for (const match of matches): the index is the first /(\d+)/ of the match
RepairPartial(text, found, variables) ==
  IF found = <<>> THEN text
  ELSE RepairPartial(
         RepairOne(text, found[1], FirstGroup(<< <<Plus("\\d")>> >>, found[1], 0, 0), variables),
         Tail(found), variables)

RECURSIVE RepairCleanup(_, _, _)
\* for (const match of matches): the index is the first /_(\d+)_/ of the match
RepairCleanup(text, found, variables) ==
  IF found = <<>> THEN text
  ELSE RepairCleanup(
         RepairOne(text, found[1],
                   FirstGroup(<< <<Lit(<<"_">>), Plus("\\d"), Lit(<<"_">>)>> >>, found[1], 1, 1),
                   variables),
         Tail(found), variables)

\* the partial variable delimiter step
PartialStep(text, variables) ==
  IF Includes(text, DEEPL_VAR_) \/ Includes(text, US_DEEPL_VAR)
  THEN ReplaceAll(genericVarPattern,
                  RepairPartial(text, Matches(partialVarPattern, text), variables), <<>>)
  ELSE text

\* originalVars.filter((v) => !translatedVars.includes(v))
MissingVars(originalVars, translatedVars) ==
  SelectSeq(originalVars, LAMBDA v : \A k \in 1..Len(translatedVars) : translatedVars[k] # v)

\* processedText += ` ${missingVars.join(" ")}` when variables are missing
AppendMissing(t, missingVars) ==
  IF missingVars # <<>> THEN t \o <<" ">> \o JoinWords(missingVars) ELSE t

AutoFix(t, originalVars, translatedVars) ==
  IF Len(translatedVars) < Len(originalVars)
  THEN AppendMissing(t, MissingVars(originalVars, translatedVars))
  ELSE t

\* the variable count check with its auto-fix
CountStep(t, originalText) ==
  AutoFix(t, Matches(VARIABLE_PATTERN, originalText), Matches(VARIABLE_PATTERN, t))

\* the check for delimiters that are still present
DelimiterStep(text, variables) ==
  IF Includes(text, VARIABLE_PREFIX) \/ Includes(text, VARIABLE_SUFFIX)
       \/ Includes(text, CONTEXT_DELIMITER)
  THEN ReplaceAll(<< <<Lit(CONTEXT_DELIMITER)>> >>, RestoreTokens(text, variables, 0), <<>>)
  ELSE text

\* the cleanup of identifiers carrying the instance id
CleanupStep(text, variables) ==
  IF VARIABLE_PREFIX # <<>> /\ Includes(text, basePrefix)
  THEN RepairCleanup(text, Matches(cleanupPattern, text), variables)
  ELSE text

\* the special processing when the target language is Arabic
ArabicStep(t) == IF options.targetLanguage = "ar" THEN ArabicCleanup(t) ELSE t

\* the removal of context delimiter patterns
CtxStep(t) == IF Test(ctxPattern, t) THEN ReplaceAll(ctxPattern, t, <<>>) ELSE t

postProcessTranslation(response, originalText, vs) ==
  CleanupStep(
    DelimiterStep(
      CountStep(
        PartialStep(CtxStep(ArabicStep(RestoreTokens(response, vs, 0))), vs),
        originalText),
      vs),
    vs)

\* totalIssues > 0 || sourceKeyMatches > 0
IssueCheck(ctxMatches, varMatches, sourceKeyMatches) ==
  ctxMatches + varMatches + sourceKeyMatches > 0 \/ sourceKeyMatches > 0

\* variant: only the context markers are counted
shouldRetranslateContext(t) == Len(Matches(ctxPattern, t)) > 0

shouldRetranslate(t) ==
  IssueCheck(Len(Matches(ctxPattern, t)), Len(Matches(varPattern, t)),
             Len(Matches(sourceKeyPattern, t)))

finalCleanup(t) ==
  IF Test(ctxPattern, t) \/ Test(varPattern, t) \/ Test(sourceKeyPattern, t)
  THEN ReplaceAll(finalPattern,
         ReplaceAll(sourceKeyPattern,
           ReplaceAll(varPattern, ReplaceAll(ctxPattern, t, <<>>), <<>>), <<>>), <<>>)
  ELSE t

----------------------------------------------------------------------------
(* One translate() call at a time on the instance (sequential invocation). *)
(* The call is suspended only while a network request is in flight.        *)

VARIABLES
  pc,                 \* "idle", "awaiting" (a request is in flight), "done", "failed"
  text,               \* the text passed to translate()
  context,            \* the context passed to translate()
  processedText,      \* attemptTranslation's parameters ...
  variables,
  sanitizedContext,
  useContext,
  retryCount,
  forceValueOnly,
  wireText,           \* textWithContext of the request in flight
  httpRetryCount,     \* makeApiRequest's retryCount
  translatedText,     \* the translatedText of the result, when pc = "done"
  error,              \* the error the call rejected with, when pc = "failed"
  restarts,           \* times translateText has called itself during the call
  roundDispatches,    \* sends (makeApiRequest calls) of the current translateText invocation
  modes,              \* the modes of its sends, in order
  outcomes,           \* what each of its answered sends led to, in order
  httpRequests,       \* HTTP requests of the latest send (makeApiRequest and its retries)
  requestGap,         \* time from the request before it to the request in flight,
                      \* saturating at MaxDelay; NoGap for a first request or none in flight
  repaired            \* the text the latest validation of the call looked at

(* The state of the other specifications of this module: several callers on *)
(* several instances (FleetSpec), a DummyTranslator (DummySpec) and a       *)
(* TranslationManager (ManagerSpec).                                        *)
VARIABLES
  now,                \* Date.now()
  rate,               \* lastRequestTime and currentDelay of every instance
  call,               \* where every caller is in makeApiRequest
  dummyResult,        \* the TranslationResult of a DummyTranslator call
  manager             \* the configuration, the files and the position of translateAll

otherVars == <<now, rate, call, dummyResult, manager>>

\* no DummyTranslator call has returned
NoResult == <<>>

instanceVars == <<options, randomId, callerOptions>>

rateVars == <<currentDelay, lastRequestSet, timeSinceLastRequest>>

attemptVars == <<processedText, variables, sanitizedContext, useContext, retryCount,
                 forceValueOnly, wireText, httpRetryCount>>

ghostVars == <<restarts, roundDispatches, modes, outcomes, httpRequests, requestGap,
               repaired>>

vars == <<instanceVars, rateVars, pc, text, context, attemptVars, translatedText, error,
          ghostVars, otherVars>>

\* this.options.maxRetries || DEFAULT_OPTIONS.maxRetries
MaxRetries == OrDefault(options.maxRetries, DEFAULT_OPTIONS.maxRetries)

EscalationCap == 3

\* variant: the configured maxRetries without the cap
EscalationUncapped == MaxRetries

\* Math.min(this.options.maxRetries || DEFAULT_OPTIONS.maxRetries, 3)
EscalationMax == Min2(MaxRetries, EscalationCap)

\* this.options.maxLength || DEFAULT_OPTIONS.maxLength
MaxLength == OrDefault(options.maxLength, DEFAULT_OPTIONS.maxLength)

\* variant: the limit itself is rejected too
TooLongInclusive(t) == Len(t) >= MaxLength

\* text.length > (this.options.maxLength || DEFAULT_OPTIONS.maxLength)
TooLong(t) == Len(t) > MaxLength

\* forceValueOnly || retryCount >= 1
UseValueOnlyMode(rc, fv) == fv \/ rc >= 1

\* variant: the context is only tested for being defined
ContextUsedIfDefined(sc, uc, rc, fv) == sc # None /\ uc /\ ~UseValueOnlyMode(rc, fv)

\* the context goes on the wire
ContextUsed(sc, uc, rc, fv) == Truthy(sc) /\ uc /\ ~UseValueOnlyMode(rc, fv)

ShortWords == 3

\* words.slice(0, 3)
FirstWords(ws) == SubSeq(ws, 1, Min2(ShortWords, Len(ws)))

\* sanitizedContext.split(" ").slice(0, 3).join(" ")
SimplifiedContext(c) == JoinWords(FirstWords(SplitWords(c)))

\* the context part of the request, None when the request carries no context
WireContext(sc, uc, rc, fv) ==
  IF ContextUsed(sc, uc, rc, fv)
  THEN IF rc > 0 THEN Some(SimplifiedContext(sc[1])) ELSE sc
  ELSE None

\* `${context} ${this.CONTEXT_DELIMITER} ${processedText}`
Wrap(pt, wc) ==
  IF wc = None THEN pt ELSE wc[1] \o <<" ">> \o CONTEXT_DELIMITER \o <<" ">> \o pt

\* textWithContext
WireText(pt, sc, uc, rc, fv) == Wrap(pt, WireContext(sc, uc, rc, fv))

\* the escalation mode of a send
Mode(sc, uc, rc, fv) ==
  IF ~ContextUsed(sc, uc, rc, fv) THEN "ValueOnly"
  ELSE IF rc > 0 THEN "ShortContext" ELSE "FullContext"

\* variant: twice the length of the context, whatever the length of the result
TwiceContextLen(result, sc) == Len(sc) * 2

\* Math.min(originalContextLen * 2, result.length / 2), as substring() truncates it
possibleTranslatedContextLen(result, sc) == Min2(Len(sc) * 2, Len(result) \div 2)

UnwrapAt(result, sc, delimiterIndex) ==
  IF delimiterIndex # 0
  THEN Trim(Substring(result, delimiterIndex - 1 + Len(CONTEXT_DELIMITER)))
  ELSE Trim(Substring(result, possibleTranslatedContextLen(result, sc)))

\* variant: the context is always cut off by its length
UnwrapByLength(result, sc) == UnwrapAt(result, sc, 0)

\* removal of the translated context from the response
Unwrap(result, sc) == UnwrapAt(result, sc, IndexOf(result, CONTEXT_DELIMITER))

\* the response once the context part, if the request had one, is removed
Stripped(response) ==
  IF ContextUsed(sanitizedContext, useContext, retryCount, forceValueOnly)
  THEN Unwrap(response, sanitizedContext[1])
  ELSE response

\* what attemptTranslation does with the response text of its request:
\* it calls itself again (kind "retry") or returns (kind "return")
Validated(response, result, valueOnlyMode) ==
     IF IsBlank(response) /\ ~valueOnlyMode
     THEN [kind |-> "retry", sanitizedContext |-> None, retryCount |-> retryCount,
           forceValueOnly |-> TRUE, result |-> response, outcome |-> "empty"]
     ELSE IF IsBlank(result) /\ ~valueOnlyMode
     THEN [kind |-> "retry", sanitizedContext |-> None, retryCount |-> retryCount,
           forceValueOnly |-> TRUE, result |-> result, outcome |-> "empty"]
     ELSE IF shouldRetranslate(result) /\ retryCount < EscalationMax
     THEN [kind |-> "retry", sanitizedContext |-> sanitizedContext,
           retryCount |-> retryCount + 1, forceValueOnly |-> valueOnlyMode,
           result |-> result, outcome |-> "issues"]
     ELSE [kind |-> "return", sanitizedContext |-> sanitizedContext,
           retryCount |-> retryCount, forceValueOnly |-> forceValueOnly, result |-> result,
           outcome |-> IF shouldRetranslate(result) THEN "issues" ELSE "clean"]

AttemptOutcome(response) ==
  Validated(response,
            postProcessTranslation(Stripped(response), text, variables),
            UseValueOnlyMode(retryCount, forceValueOnly))

NoGap == -1

\* variant: the wait is measured against the base delay
WaitTimeFromBase(since, delay) ==
  IF lastRequestSet /\ since < BaseDelay THEN BaseDelay - since ELSE 0

\* waitTime: how long applyRequestDelay suspends when the last request was
\* made since ago and this.currentDelay is delay
WaitTime(since, delay) ==
  IF lastRequestSet /\ since < delay THEN delay - since ELSE 0

\* Date.now() - this.lastRequestTime once the caller has been suspended for
\* waited since the response to the last request
SinceLastRequest(waited) == Min2(timeSinceLastRequest + waited, MaxDelay)

\* the time between the last request and the one made now
GapAfterWait(since, delay) ==
  IF lastRequestSet THEN Min2(since + WaitTime(since, delay), MaxDelay) ELSE NoGap

\* applyRequestDelay followed by the request, entered waited after the
\* response to the last request: the wait, if any, has elapsed and
\* lastRequestTime is the time of the request
applyRequestDelay(waited) ==
  /\ lastRequestSet' = TRUE
  /\ timeSinceLastRequest' = 0
  /\ requestGap' = GapAfterWait(SinceLastRequest(waited), currentDelay')

\* attemptTranslation up to its request: the new send is in flight
Send(pt, vs, sc, uc, rc, fv, round, ms) ==
  /\ pc' = "awaiting"
  /\ processedText' = pt
  /\ variables' = vs
  /\ sanitizedContext' = sc
  /\ useContext' = uc
  /\ retryCount' = rc
  /\ forceValueOnly' = fv
  /\ wireText' = WireText(pt, sc, uc, rc, fv)
  /\ httpRetryCount' = 0
  /\ translatedText' = <<>>
  /\ error' = "none"
  /\ roundDispatches' = round + 1
  /\ modes' = Append(ms, Mode(sc, uc, rc, fv))
  /\ httpRequests' = 1
  /\ applyRequestDelay(0)

\* translateText up to the request of its first attempt
translateText(t, c) ==
  \E pp \in {preprocessText(t, c)} :
    Send(pp.processedText, pp.variables,
         IF pp.useContext THEN pp.sanitizedContext ELSE None,
         pp.useContext, 0, pp.valueOnly, 0, <<>>)

\* the locals of the call are gone
ClearAttempt ==
  /\ processedText' = <<>>
  /\ variables' = <<>>
  /\ sanitizedContext' = None
  /\ useContext' = FALSE
  /\ retryCount' = 0
  /\ forceValueOnly' = FALSE
  /\ wireText' = <<>>
  /\ httpRetryCount' = 0

\* the call rejects
Reject(why) ==
  /\ pc' = "failed"
  /\ error' = why
  /\ translatedText' = <<>>
  /\ requestGap' = NoGap
  /\ ClearAttempt

\* variant: a result with another number of placeholders than the text rejects
ReturnChecked(result) ==
  IF Len(Matches(VARIABLE_PATTERN, result)) # Len(Matches(VARIABLE_PATTERN, text))
  THEN Reject("placeholders")
  ELSE /\ pc' = "done"
       /\ error' = "none"
       /\ translatedText' = result
       /\ requestGap' = NoGap
       /\ ClearAttempt

\* the call returns
Return(result) ==
  /\ pc' = "done"
  /\ error' = "none"
  /\ translatedText' = result
  /\ requestGap' = NoGap
  /\ ClearAttempt

----------------------------------------------------------------------------
(* The inputs: caller options, random ids, texts, contexts, and what the   *)
(* provider answers to a request.                                          *)

RawDefault ==
  [sourceLanguage |-> "ko", targetLanguage |-> "en", maxLength |-> Absent, delayBetweenRequests |-> Absent,
   maxRetries |-> Absent, retryDelay |-> Absent, useContext |-> "absent",
   valueOnly |-> "absent"]

SmallMaxLength == 6

RawOptions ==
  { RawDefault,
    [RawDefault EXCEPT !.valueOnly = "true"],
    [RawDefault EXCEPT !.useContext = "false"],
    [RawDefault EXCEPT !.targetLanguage = "ar", !.useContext = "undefined",
                       !.valueOnly = "undefined"],
    [RawDefault EXCEPT !.targetLanguage = "ar"],
    [RawDefault EXCEPT !.maxLength = SmallMaxLength, !.maxRetries = 1],
    [RawDefault EXCEPT !.maxLength = 0, !.maxRetries = 0, !.delayBetweenRequests = 0,
                       !.retryDelay = 0],
    [RawDefault EXCEPT !.maxRetries = 5] }

RandomIds == { <<"r">>, <<"r", "1">> }

Texts ==
  { <<>>,
    <<" ">>,
    <<"W">>,
    <<"{", "a", "}", " ", "{", "a", "}">>,
    <<"{", "a", "}", "{", "b", "}">> }

Contexts ==
  { None,
    Some(<<>>),
    Some(<<"x", " ", "a", " ", "b", " ", "z">>),
    Some(US_DEEPL_CTX \o US) }

\* a marker-like fragment none of the repair steps removes
LeftoverMarker == US_DEEPL_VAR \o <<"x">> \o US

\* delimiter-like fragments nested in one another around the delimiter
NestedDelimiter ==
  US \o <<"D", "E", "E", "P", "L", "_">> \o US \o <<"D", "E", "E", "P", "L", "_">>
     \o US_DEEPL_CTX \o US \o <<"C", "T", "X">> \o US \o <<"C", "T", "X", "_">>
     \o randomId \o US

SourceKey == <<"<ar>", ".", "a", ".", "b">>

\* the response texts of the provider to the request text w with n tokens:
\* the text unchanged, empty, blank, with a token dropped, duplicated,
\* truncated or replaced by another, with the delimiter dropped or mangled,
\* with markers, a placeholder or a source key added
Responses(w, n) ==
  {w, <<>>, <<" ">>,
   ReplaceFirst(w, Token(0), <<>>),
   ReplaceFirst(w, Token(0), Token(0) \o Token(0)),
   ReplaceFirst(w, Token(0), Substring(Token(0), 2)),
   ReplaceFirst(w, Token(0), Token(n - 1))}
  \cup {ReplaceFirst(w, CONTEXT_DELIMITER, <<>>),
        ReplaceFirst(w, CONTEXT_DELIMITER, US_DEEPL_CTX \o US),
        w \o LeftoverMarker, LeftoverMarker, NestedDelimiter,
        w \o <<" ", "{", "z", "}">>, SourceKey \o w}

\* the translator instances, all constructed with the same options, and the
\* callers: callers 1 and 2 share instance 1, caller 3 has instance 2 to itself
Instances == {1, 2}

Callers == {1, 2, 3}

InstanceOf(p) == IF p = 3 THEN 2 ELSE 1

\* Date.now() when the instances are constructed
StartTime == 1

\* a caller that is not in makeApiRequest
IdleCall ==
  [pc |-> "idle", retryCount |-> 0, wakeAt |-> 0, seen |-> 0, delay |-> 0, prev |-> 0,
   at |-> 0]

\* the target languages of the configurations
LanguageCodes == {"en", "ja"}

\* no translateAll has been called: no configuration, no file read or written
IdleManager ==
  [pc |-> "idle", skipExistingKeys |-> FALSE, targetLanguages |-> <<>>, sourceData |-> <<>>,
   existing |-> [l \in LanguageCodes |-> None], files |-> [l \in LanguageCodes |-> None],
   language |-> 0, entry |-> 0, translations |-> {}, calls |-> <<>>, results |-> <<>>]

----------------------------------------------------------------------------
(* The state machine *)

Init ==
  /\ \E raw \in RawOptions :
       /\ options = MergeOptions(raw)
       /\ currentDelay = InitialDelay(raw)
       /\ callerOptions = raw
  /\ randomId \in RandomIds
  /\ lastRequestSet = FALSE
  /\ timeSinceLastRequest = 0
  /\ pc = "idle"
  /\ text = <<>>
  /\ context = None
  /\ processedText = <<>>
  /\ variables = <<>>
  /\ sanitizedContext = None
  /\ useContext = FALSE
  /\ retryCount = 0
  /\ forceValueOnly = FALSE
  /\ wireText = <<>>
  /\ httpRetryCount = 0
  /\ translatedText = <<>>
  /\ error = "none"
  /\ restarts = 0
  /\ roundDispatches = 0
  /\ modes = <<>>
  /\ outcomes = <<>>
  /\ httpRequests = 0
  /\ requestGap = NoGap
  /\ repaired = <<>>
  /\ now = StartTime
  /\ rate = [i \in Instances |-> [currentDelay |-> currentDelay, lastRequestTime |-> 0]]
  /\ call = [p \in Callers |-> IdleCall]
  /\ dummyResult = NoResult
  /\ manager = IdleManager

\* variant: the text is tested without trimming it
TranslateUntrimmed(t, c) ==
  /\ pc = "idle"
  /\ text' = t
  /\ context' = c
  /\ UNCHANGED <<instanceVars, otherVars, currentDelay, restarts, outcomes, repaired>>
  /\ IF t = <<>>
     THEN /\ Reject("empty")
          /\ UNCHANGED <<lastRequestSet, timeSinceLastRequest, roundDispatches, modes,
                         httpRequests>>
     ELSE IF TooLong(t)
     THEN /\ Reject("length")
          /\ UNCHANGED <<lastRequestSet, timeSinceLastRequest, roundDispatches, modes,
                         httpRequests>>
     ELSE translateText(t, c)

\* Translator.translate(t, c) up to its first suspension
Translate(t, c) ==
  /\ pc = "idle"
  /\ text' = t
  /\ context' = c
  /\ UNCHANGED <<instanceVars, otherVars, currentDelay, restarts, outcomes, repaired>>
  /\ IF IsBlank(t)
     THEN /\ Reject("empty")
          /\ UNCHANGED <<lastRequestSet, timeSinceLastRequest, roundDispatches, modes,
                         httpRequests>>
     ELSE IF TooLong(t)
     THEN /\ Reject("length")
          /\ UNCHANGED <<lastRequestSet, timeSinceLastRequest, roundDispatches, modes,
                         httpRequests>>
     ELSE translateText(t, c)

\* variant: translateText calls itself with the context of the call
RestartContextKept == context

\* the context translateText passes when it calls itself: undefined
RestartContext == None

\* the request in flight succeeds with the response text response: the rest
\* of makeApiRequest, attemptTranslation and translateText up to the next
\* suspension or the return
RespondOk(response) ==
  /\ pc = "awaiting"
  /\ currentDelay' = BaseDelay
  /\ UNCHANGED <<instanceVars, otherVars, text, context>>
  /\ \E r \in {AttemptOutcome(response)} :
     /\ repaired' = r.result
     /\ IF r.kind = "retry" /\ r.retryCount <= EscalationMax
        THEN /\ Send(processedText, variables, r.sanitizedContext, useContext, r.retryCount,
                     r.forceValueOnly, roundDispatches, modes)
             /\ outcomes' = Append(outcomes, r.outcome)
             /\ UNCHANGED restarts
        ELSE \E cleaned \in {finalCleanup(IF r.kind = "retry" THEN processedText
                                             ELSE r.result)} :
          IF IsBlank(cleaned)
          THEN /\ translateText(text, RestartContext)
               /\ outcomes' = <<>>
               /\ restarts' = Min2(restarts + 1, MaxRestarts)
          ELSE /\ Return(cleaned)
               /\ outcomes' = Append(outcomes, r.outcome)
               /\ UNCHANGED <<lastRequestSet, timeSinceLastRequest, restarts, roundDispatches,
                              modes, httpRequests>>

\* variant: the retry after a 5xx response waits for the current delay
CurrentAsRetryDelay == currentDelay

\* this.options.retryDelay || DEFAULT_OPTIONS.retryDelay
RetryDelay == OrDefault(options.retryDelay, DEFAULT_OPTIONS.retryDelay)

\* variant: the delay grows by the base delay
IncreasedDelay == currentDelay + BaseDelay

\* this.currentDelay * 2
DoubledDelay == currentDelay * 2

\* variant: one more retry than maxRetries
RetryAllowedInclusive(rc) == rc <= MaxRetries

\* retryCount < maxRetries
RetryAllowed(rc) == rc < MaxRetries

\* variant: whatever the failure, the request is made again
RetriedAlways(status) == TRUE

\* the failures the catch block retries: status 429, and status 500 and above
Retried(status) == status \in {"429", "5xx"}

\* makeApiRequest's catch block: the request is made again, after a
\* suspension of waited and the delay check of applyRequestDelay
RetryRequest(waited) ==
  /\ httpRetryCount' = httpRetryCount + 1
  /\ httpRequests' = httpRequests + 1
  /\ applyRequestDelay(waited)
  /\ UNCHANGED <<pc, translatedText, error, processedText, variables, sanitizedContext,
                 useContext, retryCount, forceValueOnly, wireText, restarts,
                 roundDispatches, modes, outcomes, repaired>>

\* variant: the catch block returns the masked text instead of rethrowing
ThrowSwallowed(status) ==
  /\ Return(processedText)
  /\ UNCHANGED <<rateVars, restarts, roundDispatches, modes, outcomes, httpRequests,
                 repaired>>

\* makeApiRequest throws the error of its request; translateText's catch
\* block rethrows it
Throw(status) ==
  /\ Reject(status)
  /\ UNCHANGED <<rateVars, restarts, roundDispatches, modes, outcomes, httpRequests,
                 repaired>>

\* the request in flight fails with HTTP 429
Respond429 ==
  /\ pc = "awaiting"
  /\ roundDispatches <= ErrorSends
  /\ UNCHANGED <<instanceVars, otherVars, text, context>>
  /\ IF RetryAllowed(httpRetryCount)
     THEN /\ DoubledDelay <= MaxDelay
          /\ currentDelay' = DoubledDelay
          /\ RetryRequest(currentDelay')
     ELSE Throw("429")

\* the request in flight fails with HTTP 5xx
Respond5xx ==
  /\ pc = "awaiting"
  /\ roundDispatches <= ErrorSends
  /\ UNCHANGED <<instanceVars, otherVars, text, context>>
  /\ IF RetryAllowed(httpRetryCount)
     THEN /\ currentDelay' = currentDelay
          /\ RetryRequest(RetryDelay)
     ELSE Throw("5xx")

\* the request in flight fails with another 4xx status ("4xx") or without
\* any HTTP response ("network")
RespondFatal(kind) ==
  /\ pc = "awaiting"
  /\ UNCHANGED <<instanceVars, otherVars, text, context>>
  /\ IF Retried(kind) /\ RetryAllowed(httpRetryCount)
     THEN /\ currentDelay' = currentDelay
          /\ RetryRequest(RetryDelay)
     ELSE Throw(kind)

\* the caller has received the result or the error of the call
Settle ==
  /\ pc \in {"done", "failed"}
  /\ pc' = "idle"
  /\ text' = <<>>
  /\ context' = None
  /\ translatedText' = <<>>
  /\ error' = "none"
  /\ restarts' = 0
  /\ roundDispatches' = 0
  /\ modes' = <<>>
  /\ outcomes' = <<>>
  /\ httpRequests' = 0
  /\ repaired' = <<>>
  /\ UNCHANGED <<instanceVars, otherVars, rateVars, attemptVars, requestGap>>

\* time passes between two calls
Tick ==
  /\ pc = "idle"
  /\ lastRequestSet
  /\ timeSinceLastRequest < MaxDelay
  /\ timeSinceLastRequest' = Min2(timeSinceLastRequest + TickMs, MaxDelay)
  /\ UNCHANGED <<instanceVars, otherVars, currentDelay, lastRequestSet, pc, text, context, attemptVars,
                 translatedText, error, ghostVars>>

Next ==
  \/ \E t \in Texts, c \in Contexts : Translate(t, c)
  \/ \E response \in Responses(wireText, Len(variables)) : RespondOk(response)
  \/ Respond429
  \/ Respond5xx
  \/ \E kind \in {"4xx", "network"} : RespondFatal(kind)
  \/ Settle
  \/ Tick

Spec == Init /\ [][Next]_vars

----------------------------------------------------------------------------
(* The placeholder codec and the context embedder on their own: a text is  *)
(* masked and wrapped by translate(), then the steps that undo it are       *)
(* applied one at a time to what the provider answers.                      *)

\* what every token of the instance contains
TokenCore == DEEPL_VAR_ \o randomId \o <<"_">>

\* the end of a token with index 0, as a text may carry it
TokenTail == TokenCore \o <<"0">> \o US

\* a text that turns into the token with index 0 when the variable pattern is
\* removed from it once
NestedToken ==
  US \o <<"D", "E">> \o US_DEEPL_VAR \o US
     \o <<"E", "P", "L", "_", "V", "A", "R", "_">> \o randomId \o <<"_", "0">> \o US

\* a context that turns into the delimiter when the delimiter pattern is
\* removed from it once
NestedContext ==
  US \o <<"D", "E">> \o US_DEEPL_CTX \o US
     \o <<"E", "P", "L", "_", "C", "T", "X", "_">> \o randomId \o US

\* texts with 0, 1, 2 and 5 placeholders, with repeated names, with blanks at
\* the ends, and with fragments of the instance's own tokens
CodecTexts ==
  { <<"W">>,
    <<" ", "W">>,
    <<"{", "a", "}">>,
    <<"{", "a", "}", " ">>,
    <<"{", "a", "}", "{", "b", "}">>,
    <<"{", "a", "}", " ", "{", "b", "}", "{", "a", "}", "W", "{", "a", "}", "{", "b", "}">>,
    <<"{", "a", "}", "{", "b", "}">> \o TokenTail,
    <<"{", "a", "}", "{">> \o NestedToken \o <<"}">> \o CONTEXT_DELIMITER,
    <<"{">>,
    <<"{", "}">>,
    <<"{", "a", "{", "b", "}">> }

CodecContexts ==
  { None,
    Some(<<"x">>),
    Some(<<"x", " ", "a", " ", "b", " ", "z">>),
    Some(NestedContext),
    Some(SourceKey \o <<" ">> \o US_DEEPL_CTX \o US) }

\* a translation with underscores and digits in it, and none of the markers
SnakeText == <<"W", "_", "b", "_", "1", "_">>

\* what the provider may answer: as before, or the original text, or a text
\* of its own
CodecResponses(w, n) == Responses(w, n) \cup {text, SnakeText}

CodecInit == Init /\ callerOptions = RawDefault

\* attemptTranslation's removal of the context part from the response
StripContext(response) ==
  /\ pc = "awaiting"
  /\ pc' = "stripped"
  /\ translatedText' = Stripped(response)
  /\ UNCHANGED <<instanceVars, otherVars, rateVars, text, context, attemptVars, error, ghostVars>>

\* postProcessTranslation's restoration of the tokens
Restore ==
  /\ pc = "stripped"
  /\ pc' = "restored"
  /\ translatedText' = RestoreTokens(translatedText, variables, 0)
  /\ UNCHANGED <<instanceVars, otherVars, rateVars, text, context, attemptVars, error, ghostVars>>

\* the restoration applied once more, as postProcessTranslation does when it
\* finds delimiters left
RestoreAgain ==
  /\ pc = "restored"
  /\ pc' = "restoredAgain"
  /\ translatedText' = RestoreTokens(translatedText, variables, 0)
  /\ UNCHANGED <<instanceVars, otherVars, rateVars, text, context, attemptVars, error, ghostVars>>

\* postProcessTranslation's variable count check, with its auto-fix, on the
\* restored text
CountVariables ==
  /\ pc = "restored"
  /\ pc' = "counted"
  /\ translatedText' = CountStep(translatedText, text)
  /\ UNCHANGED <<instanceVars, otherVars, rateVars, text, context, attemptVars, error, ghostVars>>

\* postProcessTranslation on the response without its context part
PostProcess ==
  /\ pc = "stripped"
  /\ pc' = "processed"
  /\ translatedText' = postProcessTranslation(translatedText, text, variables)
  /\ UNCHANGED <<instanceVars, otherVars, rateVars, text, context, attemptVars, error, ghostVars>>

CodecNext ==
  \/ \E t \in CodecTexts, c \in CodecContexts : Translate(t, c)
  \/ \E response \in CodecResponses(wireText, Len(variables)) : StripContext(response)
  \/ PostProcess
  \/ Restore
  \/ RestoreAgain
  \/ CountVariables

CodecSpec == CodecInit /\ [][CodecNext]_vars

----------------------------------------------------------------------------
(* Several callers on several instances: makeApiRequest and                 *)
(* applyRequestDelay step by step, a step being what runs between two       *)
(* suspensions (a timer or the network request). Callers of one instance    *)
(* may overlap.                                                             *)

\* time passes by ClockStep at a time until MaxNow
ClockStep == 1000

MaxNow == 3001

FleetInit == Init /\ randomId = <<"r">> /\ callerOptions.maxRetries = 1

\* variant: the fields are shared by all instances
SetRateOfAll(i, r) == [j \in Instances |-> r]

\* the fields of instance i become r
SetRate(i, r) == [rate EXCEPT ![i] = r]

\* variant: the wait is measured against the base delay
WaitTimeAtBase(last, delay) ==
  IF last # 0 /\ now - last < BaseDelay THEN BaseDelay - (now - last) ELSE 0

\* waitTime at the time now, 0 when applyRequestDelay does not suspend
WaitTimeAt(last, delay) ==
  IF last # 0 /\ now - last < delay THEN delay - (now - last) ELSE 0

\* this.lastRequestTime = Date.now(), and the request of caller p
Request(p, rc, seen, delay) ==
  /\ rate' = SetRate(InstanceOf(p),
                     [rate[InstanceOf(p)] EXCEPT !.lastRequestTime = now])
  /\ call' = [call EXCEPT ![p] =
                [pc |-> "inFlight", retryCount |-> rc, wakeAt |-> 0, seen |-> seen,
                 delay |-> delay, prev |-> rate[InstanceOf(p)].lastRequestTime, at |-> now]]

\* applyRequestDelay of caller p up to its suspension or, when it does not
\* suspend, up to the request
DelayCheck(p, rc) ==
  \E r \in {rate[InstanceOf(p)]} :
    IF WaitTimeAt(r.lastRequestTime, r.currentDelay) > 0
    THEN /\ call' = [call EXCEPT ![p] =
                       [pc |-> "delayed", retryCount |-> rc,
                        wakeAt |-> now + WaitTimeAt(r.lastRequestTime, r.currentDelay),
                        seen |-> r.lastRequestTime, delay |-> r.currentDelay,
                        prev |-> 0, at |-> 0]]
         /\ UNCHANGED rate
    ELSE Request(p, rc, r.lastRequestTime, r.currentDelay)

fleetFrame == <<instanceVars, rateVars, pc, text, context, attemptVars, translatedText, error,
                ghostVars, dummyResult, manager>>

\* caller p enters makeApiRequest
Enter(p) ==
  /\ call[p].pc = "idle"
  /\ DelayCheck(p, 0)
  /\ UNCHANGED <<fleetFrame, now>>

\* the timer of applyRequestDelay has fired for caller p
WakeUp(p) ==
  /\ call[p].pc = "delayed"
  /\ now >= call[p].wakeAt
  /\ Request(p, call[p].retryCount, call[p].seen, call[p].delay)
  /\ UNCHANGED <<fleetFrame, now>>

\* the request of caller p succeeds: the delay is reset
Succeed(p) ==
  /\ call[p].pc = "inFlight"
  /\ rate' = SetRate(InstanceOf(p), [rate[InstanceOf(p)] EXCEPT !.currentDelay = BaseDelay])
  /\ call' = [call EXCEPT ![p] = IdleCall]
  /\ UNCHANGED <<fleetFrame, now>>

\* caller p waits for waited before it calls makeApiRequest again
Backoff(p, waited) ==
  call' = [call EXCEPT ![p] =
             [pc |-> "backoff", retryCount |-> call[p].retryCount, wakeAt |-> now + waited,
              seen |-> 0, delay |-> 0, prev |-> 0, at |-> 0]]

\* the request of caller p is answered 429
RateLimited(p) ==
  /\ call[p].pc = "inFlight"
  /\ IF RetryAllowed(call[p].retryCount)
     THEN /\ rate[InstanceOf(p)].currentDelay * 2 <= MaxDelay
          /\ rate' = SetRate(InstanceOf(p),
                             [rate[InstanceOf(p)] EXCEPT !.currentDelay = @ * 2])
          /\ Backoff(p, rate'[InstanceOf(p)].currentDelay)
     ELSE /\ call' = [call EXCEPT ![p] = IdleCall]
          /\ UNCHANGED rate
  /\ UNCHANGED <<fleetFrame, now>>

\* the request of caller p fails with status 5xx ("5xx"), another 4xx status
\* ("4xx") or without a response ("network")
Failed(p, kind) ==
  /\ call[p].pc = "inFlight"
  /\ IF Retried(kind) /\ RetryAllowed(call[p].retryCount)
     THEN Backoff(p, RetryDelay)
     ELSE call' = [call EXCEPT ![p] = IdleCall]
  /\ UNCHANGED <<fleetFrame, now, rate>>

\* the timer of the catch block has fired: makeApiRequest(textWithContext,
\* retryCount + 1)
Resume(p) ==
  /\ call[p].pc = "backoff"
  /\ now >= call[p].wakeAt
  /\ DelayCheck(p, call[p].retryCount + 1)
  /\ UNCHANGED <<fleetFrame, now>>

\* time passes
Advance ==
  /\ now < MaxNow
  /\ now' = now + ClockStep
  /\ UNCHANGED <<fleetFrame, rate, call>>

FleetNext ==
  \/ \E p \in Callers : Enter(p)
  \/ \E p \in Callers : WakeUp(p)
  \/ \E p \in Callers : Succeed(p)
  \/ \E p \in Callers : RateLimited(p)
  \/ \E p \in Callers, kind \in {"5xx", "4xx", "network"} : Failed(p, kind)
  \/ \E p \in Callers : Resume(p)
  \/ Advance

FleetSpec == FleetInit /\ [][FleetNext]_vars

----------------------------------------------------------------------------
(* DummyTranslator: the base class's translate() over a translateText that  *)
(* makes no request.                                                        *)

TranslatedLabel == <<"[", "T", "r", "a", "n", "s", "l", "a", "t", "e", "d", "]", " ">>

\* variant: the text is trimmed before it is labelled
DummyResultTrimmed(t) ==
  [originalText |-> t,
   translatedText |-> TranslatedLabel \o Trim(t),
   sourceLanguage |-> options.sourceLanguage,
   targetLanguage |-> options.targetLanguage]

\* the TranslationResult of DummyTranslator.translateText
DummyResult(t) ==
  [originalText |-> t,
   translatedText |-> TranslatedLabel \o t,
   sourceLanguage |-> options.sourceLanguage,
   targetLanguage |-> options.targetLanguage]

DummyTexts == Texts \cup { <<" ", "W">> }

DummyInit == Init /\ randomId = <<"r">>

\* DummyTranslator.translate(t, c)
DummyTranslate(t, c) ==
  /\ pc = "idle"
  /\ text' = t
  /\ context' = c
  /\ UNCHANGED <<instanceVars, rateVars, now, rate, call, manager, restarts, roundDispatches,
                 modes, outcomes, httpRequests, repaired>>
  /\ IF IsBlank(t)
     THEN Reject("empty") /\ dummyResult' = NoResult
     ELSE IF TooLong(t)
     THEN Reject("length") /\ dummyResult' = NoResult
     ELSE \E r \in {DummyResult(t)} : Return(r.translatedText) /\ dummyResult' = r

\* the caller has received the result or the error of the call
DummySettle ==
  /\ pc \in {"done", "failed"}
  /\ pc' = "idle"
  /\ text' = <<>>
  /\ context' = None
  /\ translatedText' = <<>>
  /\ error' = "none"
  /\ dummyResult' = NoResult
  /\ UNCHANGED <<instanceVars, rateVars, now, rate, call, manager, attemptVars, ghostVars>>

DummyNext ==
  \/ \E t \in DummyTexts, c \in Contexts : DummyTranslate(t, c)
  \/ DummySettle

DummySpec == DummyInit /\ [][DummyNext]_vars

----------------------------------------------------------------------------
(* TranslationManager (manager.ts): translateAll over the target languages  *)
(* and the entries of the source data.  A Record<string, string> is the set *)
(* of its <<key, value>> entries; the source data is the sequence of its    *)
(* entries, in the order of Object.entries.  The fields calls and results   *)
(* of manager record the calls of translate() and the values it resolved    *)
(* to; existing keeps the files as they were before the run.                *)

\* Object.keys(obj)
Keys(obj) == {e[1] : e \in obj}

\* a property name that every object inherits from Object.prototype
ObjectPrototype == {"constructor"}

\* key in obj
In(key, obj) == key \in Keys(obj) \/ key \in ObjectPrototype

\* obj[key] = value
Assign(obj, key, value) == {e \in obj : e[1] # key} \cup {<<key, value>>}

\* variant: nothing is written
saveNothing(m, language, translations) == m

\* saveTranslation(language, translations): the file of the language is written
saveTranslation(m, language, translations) ==
  [m EXCEPT !.files[language] = Some(translations)]

\* loadExistingTranslation(language): null without a file
loadExistingTranslation(m, language) == m.files[language]

\* existingTranslations of translateToLanguage
existingTranslations(m, language) ==
  IF m.skipExistingKeys THEN loadExistingTranslation(m, language) ELSE None

\* translateToLanguage up to its loop, for the l-th target language
translateToLanguage(m, l) ==
  LET existing == existingTranslations(m, m.targetLanguages[l])
  IN  [m EXCEPT !.language = l,
                !.entry = 1,
                !.translations = IF existing # None THEN existing[1] ELSE {}]

\* the loop of translateToLanguage from the entry m.entry on and, when it
\* ends, the loop of translateAll from the next language on, up to the next
\* call of translate()
RECURSIVE Proceed(_)
Proceed(m) ==
  IF m.language > Len(m.targetLanguages)
  THEN [m EXCEPT !.pc = "done"]
  ELSE IF m.entry > Len(m.sourceData)
  THEN Proceed(
         LET saved == saveTranslation(m, m.targetLanguages[m.language], m.translations)
         IN  IF m.language = Len(m.targetLanguages)
             THEN [saved EXCEPT !.language = @ + 1]
             ELSE translateToLanguage(saved, m.language + 1))
  ELSE IF m.skipExistingKeys /\ In(m.sourceData[m.entry][1], m.translations)
  THEN Proceed([m EXCEPT !.entry = @ + 1])
  ELSE [m EXCEPT !.pc = "translating",
                 !.calls = Append(@, [language |-> m.targetLanguages[m.language],
                                      text |-> m.sourceData[m.entry][2],
                                      context |-> m.sourceData[m.entry][1]])]

\* the source data: three entries, three entries of which one has a name that
\* objects inherit, and an entry with an empty text
SourceDatas ==
  { << <<"a", <<"H", "i">>>>, <<"b", <<"Y", "o">>>>, <<"c", <<"H", "i">>>> >>,
    << <<"b", <<"Y", "o">>>>, <<"constructor", <<"H", "i">>>>, <<"a", <<"H", "i">>>> >>,
    << <<"b", <<"Y", "o">>>>, <<"a", <<>>>> >> }

\* the translation file of a language before the run: none, empty, with one
\* key of the source data, with a key that the source data does not have
ExistingFiles ==
  { None,
    Some({}),
    Some({<<"a", <<"o", "l", "d">>>>}),
    Some({<<"a", <<"o", "l", "d">>>>, <<"z", <<"o", "l", "d">>>>}) }

TargetLanguages == { <<"en">>, <<"en", "ja">>, <<>> }

\* what translate() resolves to
TranslatedTexts == { <<"T">>, <<"U">> }

managerFrame == <<instanceVars, rateVars, pc, text, context, attemptVars, translatedText,
                  error, ghostVars, now, rate, call, dummyResult>>

\* translateAll() of a manager with the given configuration and files
translateAll(skip, languages, source, files) ==
  /\ manager.pc = "idle"
  /\ manager' =
       LET m == [manager EXCEPT !.skipExistingKeys = skip,
                                !.targetLanguages = languages,
                                !.sourceData = source,
                                !.existing = files,
                                !.files = files]
       IN  IF languages = <<>>
           THEN [m EXCEPT !.pc = "done"]
           ELSE Proceed(translateToLanguage(m, 1))
  /\ UNCHANGED managerFrame

\* translate(text, key) resolves: the entry is stored and the loop goes on
TranslateResolves(value) ==
  /\ manager.pc = "translating"
  /\ ~IsBlank(manager.sourceData[manager.entry][2])
  /\ manager' =
       Proceed([manager EXCEPT
                  !.translations = Assign(@, manager.sourceData[manager.entry][1], value),
                  !.results = Append(@, [language |-> manager.targetLanguages[manager.language],
                                         key |-> manager.sourceData[manager.entry][1],
                                         value |-> value]),
                  !.entry = @ + 1])
  /\ UNCHANGED managerFrame

\* translate(text, key) rejects: the translations are saved and the process exits
TranslateRejects ==
  /\ manager.pc = "translating"
  /\ manager' =
       [saveTranslation(manager, manager.targetLanguages[manager.language],
                        manager.translations)
          EXCEPT !.pc = "exited"]
  /\ UNCHANGED managerFrame

ManagerInit == Init /\ randomId = <<"r">> /\ callerOptions = RawDefault

ManagerNext ==
  \/ \E skip \in BOOLEAN, languages \in TargetLanguages, source \in SourceDatas,
        files \in [LanguageCodes -> ExistingFiles] :
       translateAll(skip, languages, source, files)
  \/ \E value \in TranslatedTexts : TranslateResolves(value)
  \/ TranslateRejects

ManagerSpec == ManagerInit /\ [][ManagerNext]_vars

----------------------------------------------------------------------------
(* The properties *)

\* the {name} placeholders of a text, left to right
Placeholders(t) == Matches(VARIABLE_PATTERN, t)

Elements(ms) == {ms[k] : k \in 1..Len(ms)}

Occurrences(v, ms) == Cardinality({k \in 1..Len(ms) : ms[k] = v})

\* only whitespace, or nothing at all
OnlySpaces(t) == \A i \in 1..Len(t) : t[i] = " "

\* translate() has been called and has taken its first step
Called == pc = "idle" /\ pc' # "idle"

\* the request in flight carries a context hint
CarriesContext == Includes(wireText, CONTEXT_DELIMITER)

\* every answered send of the round failed validation with a non-blank result
AllIssues == outcomes # <<>> /\ \A k \in 1..Len(outcomes) : outcomes[k] = "issues"

\* C1: when translate() returns, every {name} placeholder of the original
\* text occurs intact in translatedText, whatever the provider answered.
C1_PlaceholdersIntact ==
  pc = "done" => \A v \in Elements(Placeholders(text)) : Includes(translatedText, v)

\* C2: when translate() returns, translatedText has the same placeholders as
\* the original text, name by name and with the same number of occurrences.
C2_SameMultiset ==
  pc = "done" =>
    \A v \in Elements(Placeholders(text)) \cup Elements(Placeholders(translatedText)) :
      Occurrences(v, Placeholders(translatedText)) = Occurrences(v, Placeholders(text))

\* C3: translate() of an empty or whitespace-only text rejects without a
\* request, and leaves currentDelay and lastRequestTime as they were.
C3_BlankRejected ==
  [][(Called /\ OnlySpaces(text'))
       => /\ pc' = "failed"
          /\ roundDispatches' = 0
          /\ wireText' = <<>>
          /\ rateVars' = rateVars]_vars

\* a whitespace-only text has been rejected
C3_Witness == pc = "failed" /\ error = "empty" /\ text = <<" ">> /\ roundDispatches = 0

\* C4: translate() of a non-blank text rejects before any request exactly
\* when the text is longer than the configured maxLength; a text as long as
\* maxLength goes to translateText, which sends its first request.
C4_LengthLimit ==
  [][(Called /\ ~OnlySpaces(text'))
       => IF Len(text') > OrDefault(options.maxLength, DEFAULT_OPTIONS.maxLength)
          THEN pc' = "failed" /\ error' = "length" /\ roundDispatches' = 0
                 /\ rateVars' = rateVars
          ELSE pc' = "awaiting" /\ roundDispatches' = 1]_vars

\* a text exactly as long as a configured maxLength is on its way to the provider
C4_Witness ==
  /\ pc = "awaiting"
  /\ options.maxLength = SmallMaxLength
  /\ Len(text) = SmallMaxLength

\* C5: a call makes a bounded number of sends before it returns: since one
\* round of attempts makes at most EscalationCap + 2 sends, translateText
\* calls itself fewer than MaxRestarts times, whatever texts the provider
\* answers with.
C5_BoundedSends == restarts < MaxRestarts

\* C6: a call whose every attempt failed validation with a non-blank result
\* returns after exactly maxRetries sends.
C6_ReturnsAfterMaxRetries == (pc = "done" /\ AllIssues) => roundDispatches = MaxRetries

\* C7: the returned translatedText contains neither the context delimiter of
\* the instance nor any of its variable tokens.
C7_NoResidualMarkers ==
  pc = "done" =>
    /\ ~Includes(translatedText, CONTEXT_DELIMITER)
    /\ \A n \in 0..9 : ~Includes(translatedText, Token(n))

\* C8: after a send with the full context has failed validation the next send
\* carries the shortened context, and a call that fails validation under the
\* full and the shortened context and passes without context took the modes
\* FullContext, ShortContext, ValueOnly in its three sends.
C8_EscalationOrder ==
  /\ (Len(modes) >= 2 /\ modes[1] = "FullContext" /\ outcomes[1] = "issues")
       => modes[2] = "ShortContext"
  /\ (pc = "done" /\ modes # <<>> /\ modes[1] = "FullContext"
        /\ outcomes = <<"issues", "issues", "clean">>)
       => modes = <<"FullContext", "ShortContext", "ValueOnly">>

\* C9, as the code has it: the first request of a call carries the context
\* hint exactly when the context, once sanitised, is non-empty, useContext is
\* enabled and valueOnly is not set; when valueOnly is set or useContext is
\* disabled every request of the call is the masked text alone.
C9_ContextOnFirstSend ==
  [][/\ (Called /\ pc' = "awaiting")
          => (CarriesContext'
                <=> /\ Truthy(context') /\ EffectiveUseContext /\ ~EffectiveValueOnly
                    /\ SanitizeContext(context', TRUE) # Some(<<>>))
     /\ (pc' = "awaiting" /\ (EffectiveValueOnly \/ ~EffectiveUseContext))
          => wireText' = processedText']_vars

\* the first request of a call carries the full context hint
C9_Witness ==
  /\ pc = "awaiting"
  /\ roundDispatches = 1
  /\ Truthy(context)
  /\ wireText = context[1] \o <<" ">> \o CONTEXT_DELIMITER \o <<" ">> \o processedText

\* C9: the first request of a call carries the context hint exactly when a
\* non-empty context was supplied, useContext is enabled and valueOnly is not
\* set; when valueOnly is set or useContext is disabled every request of the
\* call is the masked text alone.
C9_ContextIffSupplied ==
  [][/\ (Called /\ pc' = "awaiting")
          => (CarriesContext'
                <=> Truthy(context') /\ EffectiveUseContext /\ ~EffectiveValueOnly)
     /\ (pc' = "awaiting" /\ (EffectiveValueOnly \/ ~EffectiveUseContext))
          => wireText' = processedText']_vars

\* the request in flight fails for good: a status that is not retried, no
\* response at all, or a 429 or 5xx once the retries are used up
DispatcherFails ==
  \/ \E kind \in {"4xx", "network"} : RespondFatal(kind)
  \/ httpRetryCount >= MaxRetries /\ (Respond429 \/ Respond5xx)

\* C10: when the dispatcher fails, at whichever attempt, the call rejects
\* with the error, without a translatedText, and makes no further request.
C10_DispatcherFailureRejects ==
  [][/\ DispatcherFails
          => /\ pc' = "failed"
             /\ error' \in {"4xx", "network", "429", "5xx"}
             /\ translatedText' = <<>>
             /\ roundDispatches' = roundDispatches
     /\ pc = "failed" => (pc' = "idle" /\ rateVars' = rateVars)]_vars

\* the dispatcher has failed at the second send of a call
C10_Witness ==
  /\ pc = "failed"
  /\ error \in {"4xx", "network", "429", "5xx"}
  /\ roundDispatches = 2

\* the request in flight receives a response that is not a success
RequestFails ==
  Respond429 \/ Respond5xx \/ \E kind \in {"4xx", "network"} : RespondFatal(kind)

\* C11: a call rejects only before its first request (blank or too long a
\* text) or when a request of it receives a failure: a successful response
\* never makes the call reject, whatever text it carries.
C11_QualityNeverRejects ==
  [][(pc # "failed" /\ pc' = "failed")
       => \/ pc = "idle" /\ roundDispatches' = 0
          \/ pc = "awaiting" /\ RequestFails]_vars

\* a call has returned a text that still has issues
C11_Witness ==
  /\ pc = "done"
  /\ outcomes # <<>>
  /\ outcomes[Len(outcomes)] = "issues"

\* C12: every request updates lastRequestTime, and a request that is not the
\* first of the instance is made at least currentDelay, as in force at its
\* delay check, after the request before it.
C12_RequestsSpaced ==
  [][pc' = "awaiting"
       => /\ lastRequestSet'
          /\ timeSinceLastRequest' = 0
          /\ lastRequestSet => requestGap' >= currentDelay']_vars

\* a retry after a 5xx response has waited for the rest of a doubled delay
C12_Witness ==
  /\ pc = "awaiting"
  /\ httpRequests = 4
  /\ currentDelay = 2 * RetryDelay
  /\ requestGap = currentDelay

\* C13, as the code has it: a 429 response that arrives while retries are
\* left doubles currentDelay, and the retry is made at least the doubled
\* delay after the failed request; a 429 response that arrives when the
\* retries are used up leaves currentDelay as it is and fails the send.
C13_DoubledWhileRetrying ==
  [][(pc = "awaiting" /\ Respond429)
       => IF httpRetryCount < MaxRetries
          THEN /\ currentDelay' = 2 * currentDelay
               /\ pc' = "awaiting"
               /\ requestGap' >= currentDelay'
          ELSE /\ currentDelay' = currentDelay
               /\ pc' = "failed"]_vars

\* two 429 responses in a row have left currentDelay at four times the base
C13_Witness ==
  /\ pc = "awaiting"
  /\ httpRequests = 3
  /\ currentDelay = 4 * BaseDelay

\* C13: every 429 response doubles currentDelay, at whichever retry count it
\* arrives.
C13_EveryResponseDoubles ==
  [][(pc = "awaiting" /\ Respond429) => currentDelay' = 2 * currentDelay]_vars

\* C14: once a call has returned, its last request having succeeded,
\* currentDelay is the value the constructor gave it.
C14_ResetToConstructed == pc = "done" => currentDelay = InitialDelay(callerOptions)

\* C15: 429 and 5xx responses share one retry counter, a send makes at most
\* maxRetries + 1 HTTP requests, and it fails with a 429 or 5xx error exactly
\* when that was the response to request maxRetries + 1.
C15_RetriesBounded ==
  /\ httpRetryCount <= MaxRetries
  /\ httpRequests <= MaxRetries + 1
  /\ pc = "awaiting" => httpRequests = httpRetryCount + 1
  /\ (pc = "failed" /\ error \in {"429", "5xx"}) => httpRequests = MaxRetries + 1

\* a send has failed after three retries, of which one followed a 429 response
C15_Witness ==
  /\ pc = "failed"
  /\ error = "5xx"
  /\ httpRequests = 4
  /\ currentDelay = 2 * BaseDelay

\* C16: a 4xx response other than 429, or a failure without a response,
\* fails the send at once: no further request, no wait, no change of the
\* delay, however many retries are left.
C16_FatalNotRetried ==
  [][(\E kind \in {"4xx", "network"} : RespondFatal(kind))
       => /\ pc' = "failed"
          /\ error' \in {"4xx", "network"}
          /\ httpRequests' = httpRequests
          /\ httpRetryCount = 0 => httpRequests' = 1
          /\ rateVars' = rateVars]_vars

\* the only request of a send was answered 4xx with all five retries left
C16_Witness ==
  /\ pc = "failed"
  /\ error = "4xx"
  /\ httpRequests = 1
  /\ MaxRetries = 5

\* the caller passed neither useContext nor valueOnly to the constructor
NeitherSupplied ==
  /\ callerOptions.useContext \in {"absent", "undefined"}
  /\ callerOptions.valueOnly \in {"absent", "undefined"}

\* C17: with the target language 'ar' and neither useContext nor valueOnly
\* supplied, no request carries the context hint.
C17_ArabicWithoutContext ==
  (options.targetLanguage = "ar" /\ NeitherSupplied) => ~CarriesContext

\* the text has no part of a token and no delimiter of the instance in it
FreeOfMarkers(t) == ~Includes(t, TokenCore) /\ ~Includes(t, CONTEXT_DELIMITER)

\* the names of the span list contain no token of the instance
NamesFreeOfTokens ==
  \A k \in 1..Len(variables) : ~Includes(variables[k].name, VARIABLE_PREFIX)

\* the text being restored is the masked text, as the provider echoed it
EchoedMasked == translatedText = processedText

EchoWithContext ==
  /\ StripContext(wireText)
  /\ ContextUsed(sanitizedContext, useContext, retryCount, forceValueOnly)

\* C20, as the code has it: when the provider echoes a request with a
\* context that does not contain the delimiter, stripping the context
\* leaves the masked text without the blanks at its ends.
C20_StripGivesTrimmed ==
  [][(EchoWithContext /\ ~Includes(sanitizedContext[1], CONTEXT_DELIMITER))
       => translatedText' = Trim(processedText)]_vars

\* the context has been stripped from the echo of a request with two tokens
C20_Witness ==
  /\ pc = "stripped"
  /\ Truthy(sanitizedContext)
  /\ Len(variables) = 2
  /\ wireText # processedText
  /\ translatedText = processedText

\* C20: when the provider echoes a request with a context, stripping the
\* context leaves the masked text.
C20_StripGivesMasked ==
  [][EchoWithContext => translatedText' = processedText]_vars

\* the request in flight is answered with a success, and the call has gone on
\* to its next request or to its return
Answered == pc = "awaiting" /\ (pc' = "done" \/ (pc' = "awaiting" /\ httpRequests' = 1))

\* the answer made attemptTranslation call itself with the next retryCount
Escalated == pc' = "awaiting" /\ retryCount' = retryCount + 1

\* the answer made attemptTranslation call itself in value-only mode with
\* the same retryCount
ShortCircuited ==
  /\ pc' = "awaiting"
  /\ roundDispatches' = roundDispatches + 1
  /\ retryCount' = retryCount
  /\ forceValueOnly'
  /\ ~CarriesContext'

\* attemptTranslation returned, and translateText started over
StartedOver == pc' = "awaiting" /\ roundDispatches' = 1 /\ retryCount' = 0

\* C24: when the request that is answered with an empty or blank text carried
\* a context, the next request is made at once without context and with the
\* same attempt counter; when it carried none, no further request is made on
\* account of the empty answer.
C24_EmptyShortCircuit ==
  [][(Answered /\ IsBlank(repaired'))
       => IF CarriesContext
          THEN ShortCircuited
          ELSE pc' # "awaiting"]_vars

\* C25: when the text an attempt ends with has more placeholders than the
\* original text and attempts remain, another request is made instead of
\* returning that text.
C25_ExtraPlaceholdersRetried ==
  [][(/\ Answered
      /\ Len(Placeholders(repaired')) > Len(Placeholders(text))
      /\ retryCount < Min2(MaxRetries, 3))
       => pc' = "awaiting"]_vars

\* the request of caller p was made too soon after the request before it
TooSoon(p) ==
  /\ call[p].pc = "inFlight"
  /\ call[p].prev # 0
  /\ call[p].at - call[p].prev < call[p].delay

\* C21: a request is made at least currentDelay, as its delay check read it,
\* after the request before it whenever no other request of the instance was
\* made between the delay check and the request, as is the case for a caller
\* that has its instance to itself; callers that share an instance can make
\* their requests closer together than that.
C21_SpacedUnlessOverlapped ==
  \A p \in Callers :
    /\ (call[p].pc = "inFlight" /\ call[p].prev = call[p].seen) => ~TooSoon(p)
    /\ (\A q \in Callers \ {p} : InstanceOf(q) # InstanceOf(p)) => ~TooSoon(p)

\* two callers of one instance passed the delay check against the same
\* lastRequestTime, and the request of one was made less than currentDelay
\* after the request of the other
C21_Witness ==
  \E p, q \in Callers :
    /\ p # q
    /\ InstanceOf(p) = InstanceOf(q)
    /\ call[q].pc = "inFlight"
    /\ call[q].seen = call[p].seen
    /\ call[q].at = call[p].prev
    /\ TooSoon(p)

\* C22: a step of a caller leaves lastRequestTime and currentDelay of every
\* instance other than the caller's as they were.
C22_InstancesIndependent ==
  [][\A p \in Callers :
       call'[p] # call[p]
         => \A i \in Instances \ {InstanceOf(p)} : rate'[i] = rate[i]]_vars

\* both instances have made requests, and only instance 1 has backed off
C22_Witness ==
  /\ rate[1].currentDelay = 2 * BaseDelay
  /\ rate[2].currentDelay = BaseDelay
  /\ rate[1].lastRequestTime # 0
  /\ rate[2].lastRequestTime # 0
  /\ rate[1].lastRequestTime # rate[2].lastRequestTime

RECURSIVE IsSubsequence(_, _)
\* the elements of a occur in b, in the same order
IsSubsequence(a, b) ==
  IF a = <<>> THEN TRUE
  ELSE IF b = <<>> THEN FALSE
  ELSE IF Head(a) = Head(b) THEN IsSubsequence(Tail(a), Tail(b))
  ELSE IsSubsequence(a, Tail(b))

\* what the count check has put after the restored text
Appended == Substring(translatedText', Len(translatedText))

\* C26: when the restored text has fewer placeholders than the original, the
\* count check leaves it as it is and puts after it a space and placeholders
\* of the original, in their original order and joined by single spaces, so
\* that the result has as many placeholders as the original.
C26_MissingAppended ==
  [][(CountVariables /\ Len(Placeholders(translatedText)) < Len(Placeholders(text)))
       => /\ SubSeq(translatedText', 1, Len(translatedText)) = translatedText
          /\ Appended = <<" ">> \o JoinWords(Placeholders(Appended))
          /\ IsSubsequence(Placeholders(Appended), Placeholders(text))
          /\ Len(Placeholders(translatedText')) = Len(Placeholders(text))]_vars

RECURSIVE Pow2(_)
Pow2(n) == IF n = 0 THEN 1 ELSE 2 * Pow2(n - 1)

\* C27: in every state, across calls, currentDelay is at least the base delay
\* and at most the base delay times 2^maxRetries.
C27_DelayWithinBackoffRange ==
  /\ currentDelay >= BaseDelay
  /\ currentDelay <= BaseDelay * Pow2(MaxRetries)

\* C28: a 5xx response, a 4xx response other than 429 and a network error
\* leave currentDelay as it is; the retry after a 5xx response is made
\* retryDelay after the failed request, or currentDelay after it when that is
\* longer; and currentDelay changes only with a 429 response or a success.
C28_OnlyRateLimitOrSuccessChangeDelay ==
  [][/\ (Respond5xx \/ \E kind \in {"4xx", "network"} : RespondFatal(kind))
          => currentDelay' = currentDelay
     /\ (Respond5xx /\ pc' = "awaiting")
          => requestGap' = Max2(OrDefault(options.retryDelay, DEFAULT_OPTIONS.retryDelay),
                                currentDelay)
     /\ currentDelay' # currentDelay => (Respond429 \/ Answered)]_vars

\* the retry after a 5xx response has been made retryDelay after the failed
\* request, with currentDelay as the constructor set it
C28_Witness ==
  /\ pc = "awaiting"
  /\ httpRequests = 2
  /\ currentDelay = InitialDelay(callerOptions)
  /\ requestGap = OrDefault(options.retryDelay, DEFAULT_OPTIONS.retryDelay)

\* the sends of the round that followed a send that failed validation with a
\* non-blank result
ValidationRedispatches ==
  Cardinality({k \in 1..Len(outcomes) : k < Len(modes) /\ outcomes[k] = "issues"})

\* C29: in one round of attempts at most min(maxRetries, 3) sends follow a
\* failed validation, maxRetries being the configured value or the default
\* when none is configured; the retries of one send are limited by maxRetries
\* itself.
C29_EscalationCapped ==
  /\ ValidationRedispatches <= Min2(OrDefault(options.maxRetries, DEFAULT_OPTIONS.maxRetries), 3)
  /\ pc = "awaiting" => retryCount = ValidationRedispatches
  /\ httpRetryCount <= OrDefault(options.maxRetries, DEFAULT_OPTIONS.maxRetries)

\* with maxRetries configured as 5, the fourth attempt of a round is in flight
\* after three failed validations
C29_Witness ==
  /\ pc = "awaiting"
  /\ options.maxRetries = 5
  /\ ValidationRedispatches = 3
  /\ retryCount = 3

\* the text has a match of one of the three patterns shouldRetranslate counts
HasMarker(t) == Test(ctxPattern, t) \/ Test(varPattern, t) \/ Test(sourceKeyPattern, t)

\* attempts remain
AttemptsRemain == retryCount < Min2(OrDefault(options.maxRetries, DEFAULT_OPTIONS.maxRetries), 3)

\* C30, as the code has it: the next escalation attempt is dispatched exactly
\* when attempts remain and the repaired text has a match of one of the three
\* patterns; a repaired text that is blank, from an attempt not in value-only
\* mode, makes the same attempt again in value-only mode; in every other case
\* the repaired text is returned to translateText, which returns it cleaned
\* or, when the cleaned text is blank, starts over.
C30_EscalatedIffMarkersRemain ==
  [][Answered
       => /\ Escalated <=> (HasMarker(repaired') /\ AttemptsRemain)
          /\ ShortCircuited
               <=> (IsBlank(repaired') /\ ~UseValueOnlyMode(retryCount, forceValueOnly))
          /\ pc' = "done" => translatedText' = finalCleanup(repaired')
          /\ (~Escalated /\ ~ShortCircuited /\ pc' # "done")
               => (StartedOver /\ IsBlank(finalCleanup(repaired')))]_vars

\* the fourth attempt of a round has returned a text that still has a marker
C30_Witness ==
  /\ pc = "done"
  /\ Len(modes) = 4
  /\ HasMarker(repaired)

\* C30: the next escalation attempt is dispatched exactly when attempts remain
\* and the repaired text has a match of one of the three patterns; otherwise
\* the repaired text is returned to translateText.
C30_DispatchedIffMarkersRemain ==
  [][Answered
       => IF HasMarker(repaired') /\ AttemptsRemain
          THEN Escalated
          ELSE pc' = "done" \/ StartedOver]_vars

\* C31: within one call, a request without the context hint is never followed
\* by a request with it, whether the next request is an escalation retry, an
\* empty-result retry or the first request of translateText's call to itself.
C31_DegradationMonotone ==
  [][(pc = "awaiting" /\ ~CarriesContext /\ pc' = "awaiting") => ~CarriesContext']_vars

\* a call with a context, which default options put on the first request,
\* has started over and its request carries no context
C31_Witness ==
  /\ pc = "awaiting"
  /\ callerOptions = RawDefault
  /\ context = Some(<<"x", " ", "a", " ", "b", " ", "z">>)
  /\ restarts = 1
  /\ wireText = processedText

\* the caller configured all four numeric options as 0
ZeroConfigured ==
  /\ callerOptions.maxRetries = 0
  /\ callerOptions.delayBetweenRequests = 0
  /\ callerOptions.retryDelay = 0
  /\ callerOptions.maxLength = 0

\* C39: with the numeric options configured as 0 the instance behaves as with
\* the defaults: no text up to 5000 characters is rejected for its length, a
\* send is retried up to 3 times and fails at the 4th failure, validation
\* escalates up to 3 times, currentDelay starts at 1000 ms and requests are
\* at least 1000 ms apart, and a retry is made at least 2000 ms after the
\* failed request.
C39_ZeroMeansDefault ==
  ZeroConfigured
    => /\ error # "length"
       /\ httpRetryCount <= 3
       /\ retryCount <= 3
       /\ (pc = "failed" /\ error \in {"429", "5xx"}) => httpRequests = 4
       /\ currentDelay \in {1000, 2000, 4000}
       /\ ~lastRequestSet => currentDelay = 1000
       /\ (pc = "awaiting" /\ requestGap # NoGap) => requestGap >= 1000
       /\ (pc = "awaiting" /\ httpRequests >= 2) => requestGap >= 2000

\* with maxRetries configured as 0, a send has failed after three retries
C39_Witness ==
  /\ ZeroConfigured
  /\ pc = "failed"
  /\ error = "5xx"
  /\ httpRequests = 4
  /\ text # <<>>

\* C32: the context that goes on the wire has no match of the source-key
\* pattern and none of the delimiter-like pattern, whatever context the
\* caller supplied.
C32_WireContextClean ==
  [][(Called /\ pc' = "awaiting" /\ CarriesContext')
       => /\ ~Test(sourceKeyPattern, sanitizedContext'[1])
          /\ ~Test(ctxPattern, sanitizedContext'[1])]_vars

\* the provider answers a request with context by a text without the delimiter
AnswersWithoutDelimiter(response) ==
  /\ StripContext(response)
  /\ ContextUsed(sanitizedContext, useContext, retryCount, forceValueOnly)
  /\ ~Includes(response, CONTEXT_DELIMITER)

\* C33, as the code has it: when the response to a request with context does
\* not contain the delimiter, the leading characters stripped from it are
\* twice the length of the context or half the length of the response,
\* rounded down, whichever is less; the rest is trimmed.
C33_FallbackStripsCapped ==
  [][\A response \in CodecResponses(wireText, Len(variables)) :
       AnswersWithoutDelimiter(response)
         => translatedText' =
              Trim(Substring(response, Min2(2 * Len(sanitizedContext[1]),
                                            Len(response) \div 2)))]_vars

\* the request in flight without its delimiter
WithoutDelimiter == ReplaceFirst(wireText, CONTEXT_DELIMITER, <<>>)

\* the response was shorter than four times the context, and half of it has
\* been stripped
C33_Witness ==
  /\ pc = "stripped"
  /\ Truthy(sanitizedContext)
  /\ wireText # processedText
  /\ 2 * Len(sanitizedContext[1]) > Len(WithoutDelimiter) \div 2
  /\ translatedText = Trim(Substring(WithoutDelimiter, Len(WithoutDelimiter) \div 2))
  /\ translatedText # Trim(Substring(WithoutDelimiter, 2 * Len(sanitizedContext[1])))

\* C33: when the response to a request with context does not contain the
\* delimiter, twice the length of the context is stripped from its start and
\* the rest is trimmed, whatever the length of the response.
C33_FallbackStripsTwice ==
  [][\A response \in CodecResponses(wireText, Len(variables)) :
       AnswersWithoutDelimiter(response)
         => translatedText' =
              Trim(Substring(response, 2 * Len(sanitizedContext[1])))]_vars

\* C34: a response in which the token with index 0 has lost its leading
\* underscores is repaired to the original text, the fragment being replaced
\* by the placeholder of the first span, whatever the random id of the
\* instance is.
C34_PartialTokenByIndex ==
  [][(/\ PostProcess
      /\ Len(variables) > 0
      /\ FreeOfMarkers(text)
      /\ translatedText = ReplaceFirst(processedText, Token(0), Substring(Token(0), 2)))
       => translatedText' = text]_vars

\* C35: a response without the token prefix and the delimiter of the
\* instance, and with exactly the placeholders of the original text, comes
\* out of postProcessTranslation unchanged (the target is not Arabic).
C35_PlainResponseUnchanged ==
  [][(/\ PostProcess
      /\ options.targetLanguage # "ar"
      /\ ~Includes(translatedText, VARIABLE_PREFIX)
      /\ ~Includes(translatedText, CONTEXT_DELIMITER)
      /\ Placeholders(translatedText) = Placeholders(text))
       => translatedText' = translatedText]_vars

\* C36: the name of every extracted span is non-empty and has neither '{' nor
\* '}' in it, so that an unterminated '{', an empty '{}' and a '{' with
\* another '{' before the closing '}' produce no span.
C36_NoBraceInNames ==
  [][(Called /\ pc' = "awaiting")
       => \A k \in 1..Len(variables') :
            /\ variables'[k].name # <<>>
            /\ \A i \in 1..Len(variables'[k].name) :
                 variables'[k].name[i] \notin {"{", "}"}]_vars

\* the object in the file of the language before the run, empty without a file
Existing(language) ==
  IF manager.existing[language] = None THEN {} ELSE manager.existing[language][1]

\* the calls of translate() for the language, in the order they were made
CallsFor(language) == SelectSeq(manager.calls, LAMBDA c : c.language = language)

\* the entries of the source data, in their order, with a key that the file
\* of the language did not have, as calls of translate(text, key)
Expected(language) ==
  LET absent == SelectSeq(manager.sourceData,
                          LAMBDA e : e[1] \notin Keys(Existing(language)))
  IN  [i \in 1..Len(absent) |->
         [language |-> language, text |-> absent[i][2], context |-> absent[i][1]]]

IsPrefixOf(s, t) == Len(s) <= Len(t) /\ SubSeq(t, 1, Len(s)) = s

\* C37: with skipExistingKeys, the calls of translate() for a language are
\* the source entries whose key the existing file of the language does not
\* have, each once, in source order, with the key as context; no call is made
\* for a key of the existing file, and once the language is finished the
\* saved file has the existing value of every such key.
C37_SkipsExactlyExisting ==
  manager.skipExistingKeys =>
    \A l \in 1..Len(manager.targetLanguages) :
      LET language == manager.targetLanguages[l]
      IN  /\ IsPrefixOf(CallsFor(language), Expected(language))
          /\ (l < manager.language \/ manager.pc = "done")
               => /\ CallsFor(language) = Expected(language)
                  /\ manager.files[language] # None
                  /\ Existing(language) \subseteq manager.files[language][1]

\* base with the entries written over it
Overlay(base, entries) == {e \in base : e[1] \notin Keys(entries)} \cup entries

\* the entries that translate() resolved for the language
Resolved(m, language) ==
  { <<m.results[i].key, m.results[i].value>> :
      i \in {j \in 1..Len(m.results) : m.results[j].language = language} }

\* the manager m has exited on a failure of translate(): the file of the
\* language has the base entries and the entries translated before the
\* failure, the failed call is the last call, and the file of every later
\* language is as it was
ExitedWith(m, base) ==
  LET language == m.targetLanguages[m.language]
  IN  /\ m.files[language] = Some(Overlay(base, Resolved(m, language)))
      /\ Len(m.calls) = Len(m.results) + 1
      /\ m.calls[Len(m.calls)].context = m.sourceData[m.entry][1]
      /\ m.calls[Len(m.calls)].language = language
      /\ \A l \in (m.language + 1)..Len(m.targetLanguages) :
           m.files[m.targetLanguages[l]] = m.existing[m.targetLanguages[l]]

\* the entries of the existing file of the language m is at
ExistingEntries(m) ==
  LET file == m.existing[m.targetLanguages[m.language]]
  IN  IF file = None THEN {} ELSE file[1]

====
